---- MODULE Spec2Model ----
(***************************************************************************)
(* Model of the Pocket Ark client's local servers: the accept loops of the *)
(* HTTP proxy and the redirector (servers/http.rs, servers/redirector.rs),  *)
(* the proxy request handler `handle` with `proxy_http_request` (api.rs),  *)
(* and the redirector's `handle_redirect`.                                  *)
(*                                                                         *)
(* Strings are sequences of tokens.  A request target is a sequence over   *)
(* UriChars, where "http" and "e" are words (runs of letters) and "/",     *)
(* ":", "?" are the URL delimiters; header values and the auth token are   *)
(* sequences of tokens too; bodies are sequences of frames of bytes.       *)
(***************************************************************************)
EXTENDS Integers, Sequences, FiniteSets, TLC

(***************************************************************************)
(* Bounds of the model.                                                    *)
(***************************************************************************)
\* longest request target after its leading "/", in tokens
MaxUriLen == 3
\* most body frames of an inbound request or of a remote response
MaxFrames == 2
\* most values one inbound header name carries
MaxHdrVals == 2
\* most connections one listener accepts
MaxConns == 2
\* most requests served on one connection
MaxReqs == 2
\* the largest major, minor or patch number of a server version
MaxVersionPart == 1

(***************************************************************************)
(* Generic helpers.                                                        *)
(***************************************************************************)
SeqsUpTo(S, n) == UNION {[1..k -> S] : k \in 0..n}

RECURSIVE Flatten(_)
Flatten(ss) == IF ss = <<>> THEN <<>> ELSE Head(ss) \o Flatten(Tail(ss))

\* index of the first element of s that lies in S, or Len(s)+1
FirstIn(s, S) ==
    IF \E i \in 1..Len(s) : s[i] \in S
    THEN CHOOSE i \in 1..Len(s) : s[i] \in S /\ \A j \in 1..(i-1) : s[j] \notin S
    ELSE Len(s) + 1

\* number of leading elements of s that lie in S (Input::count_matching)
CountLeading(s, S) ==
    IF \E i \in 1..Len(s) : s[i] \notin S
    THEN (CHOOSE i \in 1..Len(s) : s[i] \notin S /\ \A j \in 1..(i-1) : s[j] \in S) - 1
    ELSE Len(s)

Drop(s, n) == SubSeq(s, n + 1, Len(s))
Take(s, n) == SubSeq(s, 1, n)

None == [some |-> FALSE]
Some(v) == [some |-> TRUE, value |-> v]

(***************************************************************************)
(* URLs: url::Url as used by handle (Url::join) and by reqwest.            *)
(***************************************************************************)
WordChars == {"http", "e"}
UriChars == WordChars \cup {"/", ":", "?"}

HTTP == <<"http">>
HTTPS == <<"https">>
NoHost == <<>>
NoQuery == <<"<none>">>

\* SchemeType::from: of the schemes that can be written here only http and
\* https are special
IsSpecial(scheme) == scheme \in {HTTP, HTTPS}

MkUrl(scheme, host, port, path, query) ==
    [scheme |-> scheme, host |-> host, port |-> port, path |-> path, query |-> query]

JoinErr(e) == [ok |-> FALSE, err |-> e]
JoinOk(u) == [ok |-> TRUE, url |-> u]

\* path and query of the rest of an input: the path runs to the first "?",
\* the query is what follows it
PathPart(input) == Take(input, FirstIn(input, {"?"}) - 1)
QueryPart(input) ==
    IF FirstIn(input, {"?"}) > Len(input) THEN NoQuery
    ELSE Drop(input, FirstIn(input, {"?"}))

\* Parser::parse_scheme: a letter first, then letters up to a ":"; the end
\* of input or any other character before the ":" is "no scheme"
ParseScheme(input) ==
    LET k == FirstIn(input, UriChars \ WordChars)
    IN  IF input = <<>> \/ Head(input) \notin WordChars THEN None
        ELSE IF k > Len(input) \/ input[k] # ":" THEN None
        ELSE Some([scheme |-> Take(input, k - 1), rest |-> Drop(input, k)])

\* Parser::after_double_slash: host, optional port, then path and query.
\* The host ends at "/", "?" or ":"; a special scheme needs a non-empty
\* host; after ":" the port's digits run to "/", "?" or the end and any
\* other character is an invalid port (no digit can be written here, so a
\* port that parses is the scheme's default).
AfterDoubleSlash(input, scheme) ==
    LET hostEnd   == FirstIn(input, {"/", "?", ":"})
        host      == Take(input, hostEnd - 1)
        afterHost == Drop(input, hostEnd - 1)
        hasColon  == afterHost # <<>> /\ Head(afterHost) = ":"
        afterPort == IF hasColon THEN Tail(afterHost) ELSE afterHost
        badPort   == hasColon /\ afterPort # <<>> /\ Head(afterPort) \notin {"/", "?"}
        pathIn    == IF afterPort # <<>> /\ Head(afterPort) = "/"
                     THEN Tail(afterPort) ELSE afterPort
    IN  IF IsSpecial(scheme) /\ host = <<>> THEN JoinErr("EmptyHost")
        ELSE IF badPort THEN JoinErr("InvalidPort")
        ELSE IF IsSpecial(scheme)
        THEN JoinOk(MkUrl(scheme, host, "default",
                          <<"/">> \o PathPart(pathIn), QueryPart(pathIn)))
        ELSE JoinOk(MkUrl(scheme, host, "default",
                          PathPart(afterPort), QueryPart(afterPort)))

\* the path up to and including its last "/": what a relative reference
\* keeps of the base path (Parser::parse_path pops the last segment)
DirOf(path) ==
    Take(path, CHOOSE i \in 1..Len(path) :
                   path[i] = "/" /\ \A j \in (i + 1)..Len(path) : path[j] # "/")

\* Parser::parse_relative for a special base
ParseRelative(input, base) ==
    IF input = <<>> THEN JoinOk(base)
    ELSE IF Head(input) = "?"
    THEN JoinOk(MkUrl(base.scheme, base.host, base.port, base.path, Tail(input)))
    ELSE IF Head(input) = "/"
    THEN IF CountLeading(input, {"/"}) >= 2
         THEN AfterDoubleSlash(Drop(input, 2), base.scheme)
         ELSE JoinOk(MkUrl(base.scheme, base.host, base.port,
                           <<"/">> \o PathPart(Tail(input)), QueryPart(Tail(input))))
    ELSE JoinOk(MkUrl(base.scheme, base.host, base.port,
                      DirOf(base.path) \o PathPart(input), QueryPart(input)))

\* Parser::parse_non_special: "//" starts an authority, otherwise the URL
\* has no host
ParseNonSpecial(input, scheme) ==
    IF Len(input) >= 2 /\ input[1] = "/" /\ input[2] = "/"
    THEN AfterDoubleSlash(Drop(input, 2), scheme)
    ELSE JoinOk(MkUrl(scheme, NoHost, "default", PathPart(input), QueryPart(input)))

\* Parser::parse_with_scheme
ParseWithScheme(scheme, rest, base) ==
    IF IsSpecial(scheme)
    THEN IF CountLeading(rest, {"/"}) < 2 /\ base.scheme = scheme
         THEN ParseRelative(rest, base)
         ELSE AfterDoubleSlash(Drop(rest, CountLeading(rest, {"/"})), scheme)
    ELSE ParseNonSpecial(rest, scheme)

\* Url::join (Parser::parse_url with a base URL)
UrlJoin(base, input) ==
    LET s == ParseScheme(input)
    IN  IF s.some THEN ParseWithScheme(s.value.scheme, s.value.rest, base)
        ELSE ParseRelative(input, base)

Origin(u) == <<u.scheme, u.host, u.port>>

(***************************************************************************)
(* Header maps: http::HeaderMap, a multimap from (lower-case) header names *)
(* to the sequence of values each carries; <<>> is "absent".               *)
(***************************************************************************)
X_TOKEN == "x-token"
TRANSFER_ENCODING == "transfer-encoding"
CONTENT_LENGTH == "content-length"
CONTENT_TYPE == "content-type"
X_CUSTOM == "x-custom"
X_BLAZE_COMPONENT == "x-blaze-component"
X_BLAZE_COMMAND == "x-blaze-command"
X_BLAZE_SEQNO == "x-blaze-seqno"
ASSOCIATION == "x-association"
CONNECTION == "connection"
UPGRADE == "upgrade"

HeaderNames ==
    {X_TOKEN, TRANSFER_ENCODING, CONTENT_LENGTH, CONTENT_TYPE, X_CUSTOM,
     X_BLAZE_COMPONENT, X_BLAZE_COMMAND, X_BLAZE_SEQNO,
     ASSOCIATION, CONNECTION, UPGRADE}

EmptyHeaders == [n \in HeaderNames |-> <<>>]

\* a header map from a set of <<name, values>> pairs
HeadersOf(pairs) ==
    [n \in HeaderNames |->
        IF \E p \in pairs : p[1] = n THEN (CHOOSE p \in pairs : p[1] = n)[2] ELSE <<>>]

\* HeaderMap::insert: the value replaces every value the name had
HeaderInsert(h, name, value) == [h EXCEPT ![name] = <<value>>]

\* HeaderMap::append, the plausible slip for insert: keeps the old values
HeaderAppend(h, name, value) == [h EXCEPT ![name] = @ \o <<value>>]

\* HeaderMap::remove: every value of the name goes
HeaderRemove(h, name) == [h EXCEPT ![name] = <<>>]

Present(h) == {n \in HeaderNames : h[n] # <<>>}

\* HeaderValue::from_str accepts visible ASCII and tab only; a value is a
\* sequence of tokens, each a run of visible characters or one of the
\* control characters below
CtlChars == {"\n", "\r"}
IsValidHeaderValue(v) == \A i \in 1..Len(v) : v[i] \notin CtlChars

(***************************************************************************)
(* Bodies: a hyper::Body is a sequence of frames; reading a frame yields   *)
(* its bytes or an error.                                                  *)
(***************************************************************************)
\* the bytes of a frame are a sequence over {"a", "b"}; FrameErr is a frame
\* whose read fails
FrameErr == <<"<err>">>
Frames == {<<"a">>, <<"b">>}

\* HttpBody::data().await.transpose(): the first frame only.  Ok(None) at
\* the end of the body, Ok(Some(bytes)) for a frame, Err if reading fails
FirstData(frames) ==
    IF frames = <<>> THEN [ok |-> TRUE, body |-> None]
    ELSE IF Head(frames) = FrameErr THEN [ok |-> FALSE]
    ELSE [ok |-> TRUE, body |-> Some(Head(frames))]

\* reqwest::Response::bytes(): every chunk of the body, concatenated; an
\* error on any chunk fails the read
ReadBytes(frames) ==
    IF \E i \in 1..Len(frames) : frames[i] = FrameErr THEN [ok |-> FALSE]
    ELSE [ok |-> TRUE, bytes |-> Flatten(frames)]

(***************************************************************************)
(* Responses: hyper::Response<Body>                                        *)
(***************************************************************************)
OK == 200
NOT_FOUND == 404
INTERNAL_SERVER_ERROR == 500
SERVICE_UNAVAILABLE == 503

MkResponse(status, headers, body) ==
    [status |-> status, headers |-> headers, body |-> body]

\* Response::default() with its status replaced
StatusResponse(status) == MkResponse(status, EmptyHeaders, <<>>)

(***************************************************************************)
(* api.rs: proxy_http_request.  `remote` is what the remote server does    *)
(* with the call: [kind |-> "send_err"], or [kind |-> "response", status,  *)
(* headers, frames].  The result names the request handed to the client    *)
(* (`handed`), the calls that reached the network (`calls`) and the        *)
(* Result returned.                                                        *)
(***************************************************************************)
\* reqwest refuses, before any I/O, a URL without a host or whose scheme is
\* not http(s)
SendRefused(url) == url.host = NoHost \/ ~IsSpecial(url.scheme)

MkOutbound(url, method, headers, body) ==
    [url |-> url, method |-> method, headers |-> headers, body |-> body]

\* variant: Content-Length is left in
RemoveConflicting_OnlyTransferEncoding(headers) ==
    HeaderRemove(headers, TRANSFER_ENCODING)

\* "Remove conflicting headers"
RemoveConflicting(headers) ==
    HeaderRemove(HeaderRemove(headers, TRANSFER_ENCODING), CONTENT_LENGTH)

\* variant: the remote headers are not copied
ProxyResponse_NoHeaders(status, headers, bytes) ==
    MkResponse(status, EmptyHeaders, bytes)

\* "Create new response from the proxy response"
ProxyResponse(status, headers, bytes) == MkResponse(status, headers, bytes)

proxy_http_request(url, method, body, headers, remote) ==
    LET req == MkOutbound(url, method, RemoveConflicting(headers), body)
    IN  IF SendRefused(url) THEN [handed |-> req, calls |-> <<>>, ok |-> FALSE]
        ELSE IF remote.kind = "send_err"
        THEN [handed |-> req, calls |-> <<req>>, ok |-> FALSE]
        ELSE IF ~ReadBytes(remote.frames).ok
        THEN [handed |-> req, calls |-> <<req>>, ok |-> FALSE]
        ELSE [handed |-> req, calls |-> <<req>>, ok |-> TRUE,
              response |-> ProxyResponse(remote.status, remote.headers,
                                         ReadBytes(remote.frames).bytes)]

(***************************************************************************)
(* servers/http.rs: handle.  A request is [target, method, headers,        *)
(* frames]; target is None (a request target without path and query) or    *)
(* Some(path and query).  The result is [kind |-> "response", response,    *)
(* handed, calls] or [kind |-> "panic"] (the expect() on the token).       *)
(***************************************************************************)
\* request.uri().path_and_query().map(PathAndQuery::as_str).unwrap_or_default()
path_and_query(target) == IF target.some THEN target.value ELSE <<>>

\* path_and_query.strip_prefix('/').unwrap_or(path_and_query)
strip_prefix(pq) == IF pq # <<>> /\ Head(pq) = "/" THEN Tail(pq) ELSE pq

\* variant: the token is appended to the inbound x-token values
InjectToken_Append(headers, token) == HeaderAppend(headers, X_TOKEN, token)

\* variant: the token is put into a fresh map, not into a copy of the
\* request's headers
InjectToken_Fresh(headers, token) == HeaderInsert(EmptyHeaders, X_TOKEN, token)

\* headers.insert(X_TOKEN, HeaderValue::from_str(&token)...)
InjectToken(headers, token) == HeaderInsert(headers, X_TOKEN, token)

Handled(response, handed, calls) ==
    [kind |-> "response", response |-> response, handed |-> handed, calls |-> calls]

\* .expect("Invalid token") on a token that is no header value
Panicked == [kind |-> "panic", handed |-> None, calls |-> <<>>]

\* variant: a join failure answered 500
JoinFailed_InternalError ==
    Handled(StatusResponse(INTERNAL_SERVER_ERROR), None, <<>>)

\* the Err arm of base_url.join
JoinFailed == Handled(StatusResponse(SERVICE_UNAVAILABLE), None, <<>>)

\* variant: a body read failure answered 500
BodyFailed_InternalError ==
    Handled(StatusResponse(INTERNAL_SERVER_ERROR), None, <<>>)

\* the Err arm of reading the body
BodyFailed == Handled(StatusResponse(SERVICE_UNAVAILABLE), None, <<>>)

\* variant: a proxy failure answered 503
ProxyFailed_Unavailable(p) ==
    Handled(StatusResponse(SERVICE_UNAVAILABLE), Some(p.handed), p.calls)

\* the Err arm of proxy_http_request
ProxyFailed(p) == Handled(StatusResponse(INTERNAL_SERVER_ERROR), Some(p.handed), p.calls)

handle(request, base, token, remote) ==
    LET joined == UrlJoin(base, strip_prefix(path_and_query(request.target)))
        data   == FirstData(request.frames)
        p      == proxy_http_request(joined.url, request.method, data.body,
                                     InjectToken(request.headers, token), remote)
    IN  IF ~joined.ok THEN JoinFailed
        ELSE IF ~data.ok THEN BodyFailed
        ELSE IF ~IsValidHeaderValue(token) THEN Panicked
        ELSE IF ~p.ok THEN ProxyFailed(p)
        ELSE Handled(p.response, Some(p.handed), p.calls)

(***************************************************************************)
(* servers/redirector.rs: handle_redirect.  The XML body is the sequence   *)
(* of its elements that carry a value.                                     *)
(***************************************************************************)
BLAZE_PORT == 42128

GetServerInstancePath == <<"/", "redirector", "/", "getServerInstance">>

\* Uri::path(): the target up to its "?"; "/" when that is empty
UriPath(target) ==
    IF ~target.some THEN <<>>
    ELSE IF PathPart(target.value) = <<>> THEN <<"/">>
    ELSE PathPart(target.value)

\* variant: the bytes taken little-endian
from_le_bytes(b) == b[4] * 16777216 + b[3] * 65536 + b[2] * 256 + b[1]

\* u32::from_be_bytes
from_be_bytes(b) == b[1] * 16777216 + b[2] * 65536 + b[3] * 256 + b[4]

Element(tag, text) == [tag |-> tag, text |-> text]

ServerInstanceInfo(ip, port) ==
    << Element("hostname", "localhost"), Element("ip", ip), Element("port", port),
       Element("secure", 0), Element("trialservicename", ""),
       Element("defaultdnsaddress", 0) >>

RedirectHeaders ==
    HeadersOf({ <<X_BLAZE_COMPONENT, << <<"redirector">> >> >>,
                <<X_BLAZE_COMMAND, << <<"getServerInstance">> >> >>,
                <<X_BLAZE_SEQNO, << <<"0">> >> >>,
                <<CONTENT_TYPE, << <<"application/xml">> >> >> })

\* variant: a prefix match on /redirector
IsServerInstancePath_Prefix(path) ==
    Len(path) >= 2 /\ Take(path, 2) = Take(GetServerInstancePath, 2)

\* the negation of `req.uri().path() != "/redirector/getServerInstance"`
IsServerInstancePath(path) == path = GetServerInstancePath

handle_redirect(req) ==
    IF ~IsServerInstancePath(UriPath(req.target))
    THEN MkResponse(NOT_FOUND, EmptyHeaders, <<>>)
    ELSE MkResponse(OK, RedirectHeaders,
                    ServerInstanceInfo(from_be_bytes(<<127, 0, 0, 1>>), BLAZE_PORT))

(***************************************************************************)
(* api.rs: create_server_stream and create_server_tunnel.  `remote` is     *)
(* [kind |-> "send_err"] or [kind |-> "response", status, switches]:       *)
(* `switches` says whether the remote server goes on to switch protocols.  *)
(* The result is [kind |-> "stream" | "err" | "panic", err, request,       *)
(* upgrade_called].                                                        *)
(***************************************************************************)
UPGRADE_ENDPOINT == <<"api", "/", "server", "/", "upgrade">>
TUNNEL_ENDPOINT == <<"api", "/", "server", "/", "tunnel">>

\* variant: only server errors are errors
error_for_status_ServerOnly(status) == status >= 500 /\ status <= 599

\* reqwest::Response::error_for_status: Err for a client error (4xx) or a
\* server error (5xx) status
error_for_status(status) == status >= 400 /\ status <= 599

\* variant: the upgrade completes on whatever status the server switches on
UpgradeCompletes_AnyStatus(remote) == remote.switches

\* reqwest::Response::upgrade (hyper::upgrade::on): the connection of a GET
\* becomes a duplex stream only on a 101 Switching Protocols response that
\* the remote server follows through; every other response has no upgrade
UpgradeCompletes(remote) == remote.status = 101 /\ remote.switches

UpgradeResult(kind, err, request, upgrade_called) ==
    [kind |-> kind, err |-> err, request |-> request, upgrade_called |-> upgrade_called]

UpgradePanicked == UpgradeResult("panic", "none", None, FALSE)

\* variant: the association header is inserted even when there is none
IncludeAssociation_Always(headers, association) ==
    HeaderInsert(headers, ASSOCIATION,
                 IF association.some THEN association.value ELSE <<>>)

\* "Include association token"
IncludeAssociation(headers, association) ==
    IF association.some THEN HeaderInsert(headers, ASSOCIATION, association.value)
    ELSE headers

\* send, error_for_status, upgrade: the tail both functions share
SendUpgrade(url, headers, remote) ==
    LET req == MkOutbound(url, "GET", headers, None)
    IN  IF remote.kind = "send_err"
        THEN UpgradeResult("err", "RequestFailed", Some(req), FALSE)
        ELSE IF error_for_status(remote.status)
        THEN UpgradeResult("err", "ServerError", Some(req), FALSE)
        ELSE IF ~UpgradeCompletes(remote)
        THEN UpgradeResult("err", "UpgradeFailure", Some(req), TRUE)
        ELSE UpgradeResult("stream", "none", Some(req), TRUE)

create_server_stream(base, association, token, remote) ==
    LET endpoint == UrlJoin(base, UPGRADE_ENDPOINT)
        headers  == HeadersOf({ <<CONNECTION, << <<"Upgrade">> >> >>,
                                <<UPGRADE, << <<"blaze">> >> >>,
                                <<X_TOKEN, <<token>> >> })
    IN  IF ~endpoint.ok THEN UpgradePanicked
        ELSE IF ~IsValidHeaderValue(token) THEN UpgradePanicked
        ELSE IF association.some /\ ~IsValidHeaderValue(association.value)
        THEN UpgradePanicked
        ELSE SendUpgrade(endpoint.url, IncludeAssociation(headers, association), remote)

create_server_tunnel(base, association, remote) ==
    LET endpoint == UrlJoin(base, TUNNEL_ENDPOINT)
        headers  == HeadersOf({ <<CONNECTION, << <<"Upgrade">> >> >>,
                                <<UPGRADE, << <<"tunnel">> >> >> })
    IN  IF ~endpoint.ok THEN UpgradePanicked
        ELSE IF association.some /\ ~IsValidHeaderValue(association.value)
        THEN UpgradePanicked
        ELSE SendUpgrade(endpoint.url, IncludeAssociation(headers, association), remote)

(***************************************************************************)
(* api.rs: lookup_server.  `host` is the connection URL the user gave, a   *)
(* sequence of tokens; `remote` is [kind |-> "send_err"] or                *)
(* [kind |-> "response", status, details], details None when the body is   *)
(* no ServerDetails JSON.  The result is [kind |-> "ok" | "err", err,      *)
(* info_url, data].                                                        *)
(***************************************************************************)
DETAILS_ENDPOINT == <<"api", "/", "server">>
SERVER_IDENT == "POCKET_ARK_SERVER"

\* semver::Version: major, minor, patch, and whether it has a pre-release tag
Version(major, minor, patch, pre) ==
    [major |-> major, minor |-> minor, patch |-> patch, pre |-> pre]

MIN_SERVER_VERSION == Version(0, 1, 0, FALSE)

\* semver's order: by major, minor, patch; a pre-release is older than the
\* release of the same numbers
VersionLess(a, b) ==
    \/ a.major < b.major
    \/ a.major = b.major /\ a.minor < b.minor
    \/ a.major = b.major /\ a.minor = b.minor /\ a.patch < b.patch
    \/ a.major = b.major /\ a.minor = b.minor /\ a.patch = b.patch
           /\ a.pre /\ ~b.pre

StartsWith(str, prefix) ==
    Len(str) >= Len(prefix) /\ Take(str, Len(prefix)) = prefix

EndsWith(str, ch) == str # <<>> /\ str[Len(str)] = ch

HttpPrefix == <<"http", ":", "/", "/">>
HttpsPrefix == <<"https", ":", "/", "/">>

\* "Whether a scheme was inferred"
InferredScheme(host) == ~StartsWith(host, HttpPrefix) /\ ~StartsWith(host, HttpsPrefix)

\* "Ensure theres a trailing slash"
WithTrailingSlash(url) == IF EndsWith(url, "/") THEN url ELSE url \o <<"/">>

\* the string lookup_server parses
UrlString(host) ==
    WithTrailingSlash((IF InferredScheme(host) THEN HttpPrefix ELSE <<>>) \o host)

PortDigits == {"80", "443", "8080"}
DefaultPort(scheme) == IF scheme = HTTPS THEN "443" ELSE "80"

\* Url::from_str on a string that starts with "http:" or "https:" (every
\* UrlString does): the slashes after the scheme are skipped, the host runs
\* to ":", "/" or "?" and must not be empty, a port is one number (an empty
\* port and the scheme's default port are no port), then path and query
UrlFromStr(str) ==
    LET scheme    == <<Head(str)>>
        rest      == Drop(str, 2)
        input     == Drop(rest, CountLeading(rest, {"/"}))
        hostEnd   == FirstIn(input, {"/", "?", ":"})
        host      == Take(input, hostEnd - 1)
        afterHost == Drop(input, hostEnd - 1)
        hasColon  == afterHost # <<>> /\ Head(afterHost) = ":"
        portEnd   == IF hasColon THEN FirstIn(Tail(afterHost), {"/", "?"}) ELSE 1
        portStr   == IF hasColon THEN Take(Tail(afterHost), portEnd - 1) ELSE <<>>
        afterPort == IF hasColon THEN Drop(Tail(afterHost), portEnd - 1) ELSE afterHost
        badPort   == Len(portStr) > 1 \/ (Len(portStr) = 1 /\ portStr[1] \notin PortDigits)
        port      == IF portStr = <<>> \/ portStr = <<DefaultPort(scheme)>>
                     THEN "default" ELSE portStr[1]
        pathIn    == IF afterPort # <<>> /\ Head(afterPort) = "/"
                     THEN Tail(afterPort) ELSE afterPort
    IN  IF host = <<>> THEN JoinErr("EmptyHost")
        ELSE IF badPort THEN JoinErr("InvalidPort")
        ELSE JoinOk(MkUrl(scheme, host, port,
                          <<"/">> \o PathPart(pathIn), QueryPart(pathIn)))

\* Url::set_scheme between special schemes; a port that is the new scheme's
\* default is dropped
set_scheme(url, scheme) ==
    MkUrl(scheme, url.host,
          IF url.port = DefaultPort(scheme) THEN "default" ELSE url.port,
          url.path, url.query)

\* "Update scheme to be https if the 443 port was specified and the scheme
\* was inferred as http://"
UpdateScheme(url, inferred) ==
    IF url.port = "443" /\ inferred THEN set_scheme(url, HTTPS) ELSE url

\* variant: the version is checked before the ident
ValidateDetails_VersionFirst(details) ==
    IF VersionLess(details.version, MIN_SERVER_VERSION) THEN "ServerOutdated"
    ELSE IF ~details.ident.some \/ details.ident.value # SERVER_IDENT
    THEN "NotPocketArk"
    ELSE "none"

\* "Handle invalid server ident", "Ensure the server is a supported version"
ValidateDetails(details) ==
    IF ~details.ident.some \/ details.ident.value # SERVER_IDENT THEN "NotPocketArk"
    ELSE IF VersionLess(details.version, MIN_SERVER_VERSION) THEN "ServerOutdated"
    ELSE "none"

LookupResult(kind, err, info_url, data) ==
    [kind |-> kind, err |-> err, info_url |-> info_url, data |-> data]

LookupErr(err, info_url) == LookupResult("err", err, info_url, None)

LookupData(url, version, association) ==
    [url |-> url, version |-> version, association |-> association]

lookup_server(host, remote) ==
    LET parsed == UrlFromStr(UrlString(host))
        url    == UpdateScheme(parsed.url, InferredScheme(host))
        info   == UrlJoin(url, DETAILS_ENDPOINT)
        sent   == Some(info.url)
    IN  IF ~parsed.ok THEN LookupErr("InvalidHostTarget", None)
        ELSE IF ~info.ok THEN LookupResult("panic", "none", None, None)
        ELSE IF remote.kind = "send_err" THEN LookupErr("ConnectionFailed", sent)
        ELSE IF error_for_status(remote.status) THEN LookupErr("ErrorResponse", sent)
        ELSE IF ~remote.details.some THEN LookupErr("InvalidResponse", sent)
        ELSE IF ValidateDetails(remote.details.value) # "none"
        THEN LookupErr(ValidateDetails(remote.details.value), sent)
        ELSE LookupResult("ok", "none", sent,
                          Some(LookupData(url, remote.details.value.version,
                                          remote.details.value.association)))

(***************************************************************************)
(* ssl.rs: create_ssl_context.  Every fallible step ends in `?`; `fail`    *)
(* names the first step that fails, "none" when all succeed.  The result   *)
(* is [kind |-> "context" | "err", ctx]; a context's protocol bounds are   *)
(* protocol versions or Unset (OpenSSL's default: no bound).               *)
(***************************************************************************)
SslVersions == <<"SSL3", "TLS1", "TLS1_1", "TLS1_2", "TLS1_3">>
TLS1_2 == "TLS1_2"
Unset == "unset"

SslSteps ==
    <<"X509::from_der", "Rsa::private_key_from_pem", "PKey::from_rsa",
      "SslContext::builder", "set_certificate", "set_private_key",
      "set_min_proto_version", "set_max_proto_version">>

SslFailures == {"none"} \cup { SslSteps[i] : i \in 1..Len(SslSteps) }

NewBuilder == [certificate |-> FALSE, private_key |-> FALSE, min |-> Unset, max |-> Unset]

set_certificate(builder) == [builder EXCEPT !.certificate = TRUE]
set_private_key(builder) == [builder EXCEPT !.private_key = TRUE]
set_min_proto_version(builder, version) == [builder EXCEPT !.min = version]

\* variant: the upper bound is left at OpenSSL's default
set_max_proto_version_Skipped(builder, version) == builder

set_max_proto_version(builder, version) == [builder EXCEPT !.max = version]

SslErr == [kind |-> "err", ctx |-> NewBuilder]

create_ssl_context(fail) ==
    LET builder == set_max_proto_version(
                       set_min_proto_version(
                           set_private_key(set_certificate(NewBuilder)), TLS1_2),
                       TLS1_2)
    IN  IF fail # "none" THEN SslErr
        ELSE [kind |-> "context", ctx |-> builder]

\* the position of a protocol version in OpenSSL's order of versions
Rank(version) == CHOOSE i \in 1..Len(SslVersions) : SslVersions[i] = version

\* the versions a context accepts in a handshake: those within its bounds
Accepts(ctx) ==
    LET lo == IF ctx.min = Unset THEN 1 ELSE Rank(ctx.min)
        hi == IF ctx.max = Unset THEN Len(SslVersions) ELSE Rank(ctx.max)
    IN  { SslVersions[i] : i \in lo..hi }

(***************************************************************************)
(* The inputs the handlers are run on.                                     *)
(***************************************************************************)
Methods == {"GET", "POST"}

\* remote base URLs as lookup_server leaves them: http or https, a host,
\* a path that ends with "/"
BaseUrls ==
    { MkUrl(HTTP, <<"r">>, "default", <<"/">>, NoQuery),
      MkUrl(HTTPS, <<"r">>, "default", <<"/">>, NoQuery),
      MkUrl(HTTP, <<"r">>, "8080", <<"/", "p", "/">>, NoQuery) }

\* session tokens: the second holds a line feed
Tokens == { <<"tk">>, <<"tk", "\n">> }

MkRequest(target, method, headers, frames) ==
    [target |-> target, method |-> method, headers |-> headers, frames |-> frames]

\* request targets of the proxy: none, or "/" and up to MaxUriLen tokens
ProxyTargets == {None} \cup {Some(<<"/">> \o t) : t \in SeqsUpTo(UriChars, MaxUriLen)}

InboundHeaders ==
    { HeadersOf({ <<X_TOKEN, xt>>, <<TRANSFER_ENCODING, te>>,
                  <<CONTENT_LENGTH, cl>>, <<X_CUSTOM, xc>> }) :
        xt \in SeqsUpTo({<<"tk">>, <<"evil">>}, MaxHdrVals),
        te \in {<<>>, << <<"chunked">> >>},
        cl \in {<<>>, << <<"1">> >>},
        xc \in {<<>>, << <<"v">> >>, << <<"v">>, <<"w">> >>} }

FrameSeqs == SeqsUpTo(Frames \cup {FrameErr}, MaxFrames)

DefaultTarget == Some(<<"/", "e">>)
DefaultRequest == MkRequest(DefaultTarget, "GET", EmptyHeaders, <<>>)

\* the requests the proxy handler is run on: every target, every header
\* map with and without a body, every framing of a body
ProxyRequests ==
    {MkRequest(t, "GET", EmptyHeaders, <<>>) : t \in ProxyTargets}
    \cup {MkRequest(DefaultTarget, m, h, f) :
            m \in Methods, h \in InboundHeaders, f \in {<<>>, << <<"a">> >>}}
    \cup {MkRequest(DefaultTarget, "POST", EmptyHeaders, f) : f \in FrameSeqs}

NoRemote == [kind |-> "none"]
SendErr == [kind |-> "send_err"]
RemoteResponse(status, headers, frames) ==
    [kind |-> "response", status |-> status, headers |-> headers, frames |-> frames]

RemoteHeaders ==
    { EmptyHeaders,
      HeadersOf({ <<CONTENT_TYPE, << <<"json">> >> >>,
                  <<X_CUSTOM, << <<"v">>, <<"w">> >> >>,
                  <<CONTENT_LENGTH, << <<"2">> >> >> }) }

Remotes ==
    {SendErr} \cup
    { RemoteResponse(st, h, f) :
        st \in {200, 201, 404, 500}, h \in RemoteHeaders, f \in FrameSeqs }

SimpleRemotes ==
    { SendErr,
      RemoteResponse(200, EmptyHeaders, <<FrameErr>>),
      RemoteResponse(201, CHOOSE h \in RemoteHeaders : h # EmptyHeaders, << <<"a">> >>) }

\* what the proxy handler is run on: every request against the simple
\* remote behaviours, and the default request against every one
ProxyRuns ==
    (ProxyRequests \X SimpleRemotes) \cup ({DefaultRequest} \X Remotes)

RedirectChars == {"/", "redirector", "getServerInstance", "x"}

RedirectTargets ==
    {None} \cup
    { Some(<<"/">> \o t \o q) :
        t \in SeqsUpTo(RedirectChars, MaxUriLen),
        q \in {<<>>, <<"?">>, <<"?", "x">>} }

RedirectRequests ==
    { MkRequest(t, m, h, <<>>) :
        t \in RedirectTargets, m \in Methods,
        h \in {EmptyHeaders, HeadersOf({<<X_BLAZE_SEQNO, << <<"7">> >> >>})} }

\* association tokens: none, one, one that holds a line feed
Associations == { None, Some(<<"as">>), Some(<<"as", "\n">>) }

UpgradeStatuses == {101, 200, 204, 304, 401, 404, 500}

UpgradeRemotes ==
    {SendErr} \cup
    { [kind |-> "response", status |-> st, switches |-> sw] :
        st \in UpgradeStatuses, sw \in BOOLEAN }

\* connection URLs: an optional scheme prefix, a host name or none, an
\* optional port, an optional path and query
HostPrefixes == {<<>>, HttpPrefix, HttpsPrefix}
HostNames == {<<>>, <<"r">>}
HostPorts == {<<>>, <<":">>, <<":", "80">>, <<":", "443">>, <<":", "8080">>, <<":", "r">>}
HostTails == {<<>>, <<"/">>, <<"/", "p">>, <<"/", "p", "/">>,
              <<"?", "e">>, <<"/", "p", "?", "e">>}

HostParts == [prefix : HostPrefixes, name : HostNames, port : HostPorts, tail : HostTails]

HostString(h) == h.prefix \o h.name \o h.port \o h.tail

DefaultHost == [prefix |-> <<>>, name |-> <<"r">>, port |-> <<>>, tail |-> <<>>]

ServerVersions ==
    { Version(ma, mi, pa, pre) :
        ma \in 0..MaxVersionPart, mi \in 0..MaxVersionPart,
        pa \in 0..MaxVersionPart, pre \in BOOLEAN }

ServerDetails ==
    [version : ServerVersions,
     ident : {None, Some(SERVER_IDENT), Some("POCKET_RELAY_SERVER")},
     association : {None, Some(<<"as">>)}]

DefaultDetails ==
    [version |-> MIN_SERVER_VERSION, ident |-> Some(SERVER_IDENT), association |-> None]

LookupResponse(status, details) ==
    [kind |-> "response", status |-> status, details |-> details]

LookupRemotes ==
    {SendErr}
    \cup { LookupResponse(200, Some(d)) : d \in ServerDetails }
    \cup { LookupResponse(st, d) :
             st \in {200, 302, 404, 500}, d \in {None, Some(DefaultDetails)} }

\* what lookup_server is run on: every connection URL against a server
\* that answers well, and the default one against every remote behaviour
LookupRuns ==
    (HostParts \X {LookupResponse(200, Some(DefaultDetails))})
    \cup ({DefaultHost} \X LookupRemotes)

(***************************************************************************)
(* State.                                                                  *)
(***************************************************************************)
VARIABLES
    \* the session context: [base_url, token], fixed after construction
    session,
    \* the request a handler is answering, with its result; Idle between
    \* requests
    txn,
    \* which of the two servers the accept loop below is
    server,
    \* where the start_*_server future is: "binding", "accepting",
    \* "bind_err" (it returned the bind error) or "loop_err" (it returned
    \* an error from inside the loop)
    listener,
    \* the tasks spawned for the accepted connections, in accept order:
    \* [st, served] with st "handshake", "serving", "closed" (Ok(())),
    \* "failed" (Err, logged) or "panicked"
    conns

vars == <<session, txn, server, listener, conns>>

Servers == {"http", "redirector"}

Idle == [handler |-> "none"]

(***************************************************************************)
(* The request handlers, one action per service call.                      *)
(***************************************************************************)
\* service_fn(handle) is called with one request of a proxy connection
ProxyRequest ==
    /\ server = "http"
    /\ txn = Idle
    /\ \E run \in ProxyRuns :
         txn' = [handler |-> "proxy", request |-> run[1], remote |-> run[2],
                 result |-> handle(run[1], session.base_url, session.token, run[2])]
    /\ UNCHANGED <<session, server, listener, conns>>

\* service_fn(handle_redirect) is called with one request
RedirectRequest ==
    /\ server = "redirector"
    /\ txn = Idle
    /\ \E req \in RedirectRequests :
         txn' = [handler |-> "redirect", request |-> req, remote |-> NoRemote,
                 result |-> Handled(handle_redirect(req), None, <<>>)]
    /\ UNCHANGED <<session, server, listener, conns>>

\* one call of create_server_stream with the session's base URL and token
UpgradeStream ==
    /\ txn = Idle
    /\ \E a \in Associations, r \in UpgradeRemotes :
         txn' = [handler |-> "stream", request |-> [association |-> a], remote |-> r,
                 result |-> create_server_stream(session.base_url, a, session.token, r)]
    /\ UNCHANGED <<session, server, listener, conns>>

\* one call of create_server_tunnel with the session's base URL
UpgradeTunnel ==
    /\ txn = Idle
    /\ \E a \in Associations, r \in UpgradeRemotes :
         txn' = [handler |-> "tunnel", request |-> [association |-> a], remote |-> r,
                 result |-> create_server_tunnel(session.base_url, a, r)]
    /\ UNCHANGED <<session, server, listener, conns>>

\* one call of lookup_server
LookupServer ==
    /\ txn = Idle
    /\ \E run \in LookupRuns :
         txn' = [handler |-> "lookup", request |-> [host |-> run[1]], remote |-> run[2],
                 result |-> lookup_server(HostString(run[1]), run[2])]
    /\ UNCHANGED <<session, server, listener, conns>>

\* one call of create_ssl_context
CreateSslContext ==
    /\ txn = Idle
    /\ \E f \in SslFailures :
         txn' = [handler |-> "ssl", request |-> [fail |-> f], remote |-> NoRemote,
                 result |-> create_ssl_context(f)]
    /\ UNCHANGED <<session, server, listener, conns>>

\* the result is returned to the caller; nothing of it is kept
RequestDone ==
    /\ txn # Idle
    /\ txn' = Idle
    /\ UNCHANGED <<session, server, listener, conns>>

\* the handlers, over every session and request, beside a listener that
\* is accepting
Init ==
    /\ session \in [base_url : BaseUrls, token : Tokens]
    /\ txn = Idle
    /\ server \in Servers
    /\ listener = "accepting"
    /\ conns = <<>>

Next ==
    \/ ProxyRequest \/ RedirectRequest
    \/ UpgradeStream \/ UpgradeTunnel
    \/ CreateSslContext \/ LookupServer
    \/ RequestDone

Spec == Init /\ [][Next]_vars

(***************************************************************************)
(* The accept loops: start_http_server and start_redirector_server, and    *)
(* the task of each accepted connection (serve_connection).                *)
(***************************************************************************)
\* a connection's task: `st` is where the task is, `hs` the outcome of the
\* TLS handshake, `started` the requests handed to the handler, `served`
\* the requests the handler has answered
Conn(st, served) ==
    [st |-> st, hs |-> "pending", started |-> served, served |-> served]

\* servers::spawn_server_task: the future becomes a task of its own, run
\* independently of the caller and of the other tasks
spawn_server_task(tasks, task) == Append(tasks, task)

\* TcpListener::bind(...).await succeeds
BindOk ==
    /\ listener = "binding"
    /\ listener' = "accepting"
    /\ UNCHANGED <<session, txn, server, conns>>

\* TcpListener::bind(...).await.context("Failed to bind listener")?
BindFail ==
    /\ listener = "binding"
    /\ listener' = "bind_err"
    /\ UNCHANGED <<session, txn, server, conns>>

Finished == {"closed", "failed", "panicked"}

\* variant: the loop awaits serve_connection itself before it accepts again
AcceptSpawn_Inline ==
    /\ listener = "accepting"
    /\ Len(conns) < MaxConns
    /\ \A i \in 1..Len(conns) : conns[i].st \in Finished
    /\ conns' = spawn_server_task(conns, Conn("handshake", 0))
    /\ UNCHANGED <<session, txn, server, listener>>

\* variant: the loop goes on after a bind error
AcceptSpawn_Unbound ==
    /\ listener \in {"accepting", "bind_err"}
    /\ Len(conns) < MaxConns
    /\ conns' = spawn_server_task(conns, Conn("handshake", 0))
    /\ UNCHANGED <<session, txn, server, listener>>

\* one turn of the loop with no failure: accept, Ssl::new, SslStream::new,
\* spawn_server_task
AcceptSpawn ==
    /\ listener = "accepting"
    /\ Len(conns) < MaxConns
    /\ conns' = spawn_server_task(conns, Conn("handshake", 0))
    /\ UNCHANGED <<session, txn, server, listener>>

\* listener.accept().await? with an Err
AcceptFail ==
    /\ listener = "accepting"
    /\ listener' = "loop_err"
    /\ UNCHANGED <<session, txn, server, conns>>

\* Ssl::new(..)? or SslStream::new(..)? with an Err: the accepted socket is
\* dropped, no task is spawned
SslStreamFail ==
    /\ listener = "accepting"
    /\ Len(conns) < MaxConns
    /\ listener' = "loop_err"
    /\ UNCHANGED <<session, txn, server, conns>>

\* Pin::new(&mut stream).accept().await succeeds
HandshakeOk(i) ==
    /\ conns[i].st = "handshake"
    /\ conns' = [conns EXCEPT ![i].st = "serving", ![i].hs = "ok"]
    /\ UNCHANGED <<session, txn, server, listener>>

\* Pin::new(&mut stream).accept().await? with an Err
HandshakeFail(i) ==
    /\ conns[i].st = "handshake"
    /\ conns' = [conns EXCEPT ![i].st = "failed", ![i].hs = "failed"]
    /\ UNCHANGED <<session, txn, server, listener>>

\* variant: hyper hands the next request to the handler while the last one
\* is still being handled
StartRequest_Pipelined(i) ==
    /\ conns[i].st \in {"serving", "handling", "calling"}
    /\ conns[i].started < MaxReqs
    /\ conns' = [conns EXCEPT ![i].st = "handling", ![i].started = @ + 1]
    /\ UNCHANGED <<session, txn, server, listener>>

\* variant: the connection is served without waiting for the handshake
StartRequest_BeforeHandshake(i) ==
    /\ conns[i].st \in {"handshake", "serving"}
    /\ conns[i].started < MaxReqs
    /\ conns' = [conns EXCEPT ![i].st = "handling", ![i].started = @ + 1]
    /\ UNCHANGED <<session, txn, server, listener>>

\* Http::serve_connection reads the next request of the connection and
\* calls the handler (service_fn) with it; an HTTP/1 connection has one
\* request in flight at a time
StartRequest(i) ==
    /\ conns[i].st = "serving"
    /\ conns[i].started < MaxReqs
    /\ conns' = [conns EXCEPT ![i].st = "handling", ![i].started = @ + 1]
    /\ UNCHANGED <<session, txn, server, listener>>

\* the handler returns a response before any outbound call: handle_redirect
\* always, handle on a join failure or a body read failure (503)
RespondEarly(i) ==
    /\ conns[i].st = "handling"
    /\ conns' = [conns EXCEPT ![i].st = "serving", ![i].served = @ + 1]
    /\ UNCHANGED <<session, txn, server, listener>>

\* handle: the join and request.body_mut().data().await succeeded; the
\* token header is built (a panic when the token is no header value) and
\* proxy_http_request is awaited
BodyRead(i) ==
    /\ server = "http"
    /\ conns[i].st = "handling"
    /\ conns' = [conns EXCEPT ![i].st =
                    IF IsValidHeaderValue(session.token) THEN "calling" ELSE "panicked"]
    /\ UNCHANGED <<session, txn, server, listener>>

\* proxy_http_request returns: the remote response or the 500 is answered
RemoteDone(i) ==
    /\ conns[i].st = "calling"
    /\ conns' = [conns EXCEPT ![i].st = "serving", ![i].served = @ + 1]
    /\ UNCHANGED <<session, txn, server, listener>>

\* Http::serve_connection(..).await.context("Serve error")? with an Err
ServeError(i) ==
    /\ conns[i].st \in {"serving", "handling", "calling"}
    /\ conns' = [conns EXCEPT ![i].st = "failed"]
    /\ UNCHANGED <<session, txn, server, listener>>

\* the peer closes the connection: serve_connection returns Ok(())
PeerClose(i) ==
    /\ conns[i].st = "serving"
    /\ conns' = [conns EXCEPT ![i].st = "closed"]
    /\ UNCHANGED <<session, txn, server, listener>>

InitServers ==
    /\ session \in [base_url : {CHOOSE b \in BaseUrls : b.scheme = HTTPS}, token : Tokens]
    /\ txn = Idle
    /\ server \in Servers
    /\ listener = "binding"
    /\ conns = <<>>

NextServers ==
    \/ BindOk \/ BindFail \/ AcceptSpawn \/ AcceptFail \/ SslStreamFail
    \/ \E i \in 1..Len(conns) :
         \/ HandshakeOk(i) \/ HandshakeFail(i)
         \/ StartRequest(i) \/ RespondEarly(i) \/ BodyRead(i) \/ RemoteDone(i)
         \/ ServeError(i) \/ PeerClose(i)

SpecServers == InitServers /\ [][NextServers]_vars

(***************************************************************************)
(* Properties.                                                             *)
(***************************************************************************)
IsProxy == txn.handler = "proxy"
IsRedirect == txn.handler = "redirect"
Forwarded == IsProxy /\ txn.result.calls # <<>>
Response == txn.result.response

\* C1: after a successful bind no failure of an accept call, of creating
\* the TLS stream, of the handshake or of the handler ends the accept loop:
\* the server future never returns from inside its loop.
C1_AcceptLoopNeverEnds == listener # "loop_err"

\* C2: every forwarded request carries exactly one x-token header, and its
\* value is the session's token, whatever x-token values came in.
C2_OutboundTokenIsSessionToken ==
    Forwarded =>
        \A i \in 1..Len(txn.result.calls) :
            txn.result.calls[i].headers[X_TOKEN] = <<session.token>>

C2_Witness ==
    /\ Forwarded
    /\ Len(txn.request.headers[X_TOKEN]) = 2
    /\ \A i \in 1..2 : txn.request.headers[X_TOKEN][i] # session.token

\* the bytes of an Option<Bytes> body
BodyBytes(body) == IF body.some THEN body.value ELSE <<>>

\* C3: the body of the outbound request is the concatenation of all the
\* frames of the inbound body, in order.
C3_OutboundBodyIsAllFrames ==
    (Forwarded /\ ReadBytes(txn.request.frames).ok) =>
        \A i \in 1..Len(txn.result.calls) :
            BodyBytes(txn.result.calls[i].body) = ReadBytes(txn.request.frames).bytes

\* C4: no request target makes the outbound call go anywhere but to the
\* scheme, host and port of the session's base URL.
C4_OutboundStaysOnBaseOrigin ==
    Forwarded =>
        \A i \in 1..Len(txn.result.calls) :
            Origin(txn.result.calls[i].url) = Origin(session.base_url)

JoinOf(request) == UrlJoin(session.base_url, strip_prefix(path_and_query(request.target)))

\* C5: when the join of the stripped path and query against the base URL
\* fails, the answer is 503 and no outbound call is made.
C5_JoinFailureIs503NoCall ==
    (IsProxy /\ ~JoinOf(txn.request).ok) =>
        /\ txn.result.kind = "response"
        /\ Response.status = 503
        /\ txn.result.calls = <<>>

C5_Witness ==
    /\ IsProxy
    /\ JoinOf(txn.request) = JoinErr("EmptyHost")
    /\ txn.result.kind = "response"
    /\ Response.status = 503

\* the request got as far as the outbound client
Handed == IsProxy /\ txn.result.handed.some

\* the outbound call failed in transport: the client refused to send it,
\* sending it failed, or reading the remote response's body failed
TransportFailed ==
    \/ Handed /\ SendRefused(txn.result.handed.value.url)
    \/ Forwarded /\ txn.remote.kind = "send_err"
    \/ Forwarded /\ txn.remote.kind = "response" /\ ~ReadBytes(txn.remote.frames).ok

\* C6: when sending the outbound request fails, or reading the remote
\* response's body fails, the local caller gets a response, with status 500.
C6_TransportFailureIs500 ==
    TransportFailed => (txn.result.kind = "response" /\ Response.status = 500)

C6_Witness ==
    /\ Forwarded
    /\ txn.remote.kind = "response"
    /\ ~ReadBytes(txn.remote.frames).ok
    /\ Response.status = 500

RemoteAnswered ==
    /\ Forwarded
    /\ txn.remote.kind = "response"
    /\ \A i \in 1..Len(txn.remote.frames) : txn.remote.frames[i] # FrameErr

\* C7: the local response has the status, exactly the headers and the body
\* bytes of the remote response, for every status class.
C7_ResponsePassthrough ==
    RemoteAnswered =>
        /\ Response.status = txn.remote.status
        /\ Response.headers = txn.remote.headers
        /\ Response.body = Flatten(txn.remote.frames)

C7_Witness ==
    /\ RemoteAnswered
    /\ txn.remote.status = 404
    /\ Present(txn.remote.headers) = {CONTENT_TYPE, X_CUSTOM, CONTENT_LENGTH}
    /\ Len(txn.remote.frames) = 2
    /\ Response.status = 404

\* C8: the headers handed to the outbound client hold neither
\* Transfer-Encoding nor Content-Length, whatever came in.
C8_NoFramingHeadersOutbound ==
    Handed =>
        /\ txn.result.handed.value.headers[TRANSFER_ENCODING] = <<>>
        /\ txn.result.handed.value.headers[CONTENT_LENGTH] = <<>>

C8_Witness ==
    /\ Handed
    /\ Forwarded
    /\ txn.request.headers[TRANSFER_ENCODING] # <<>>
    /\ txn.request.headers[CONTENT_LENGTH] # <<>>

BlazeHeaders == {X_BLAZE_COMPONENT, X_BLAZE_COMMAND, X_BLAZE_SEQNO}

\* C9: for every method, a request whose path is not exactly
\* /redirector/getServerInstance is answered 404 with an empty body and
\* none of the identification headers.
C9_OtherPathsNotFound ==
    (IsRedirect /\ UriPath(txn.request.target) # GetServerInstancePath) =>
        /\ Response.status = 404
        /\ Response.body = <<>>
        /\ Present(Response.headers) \cap BlazeHeaders = {}

C9_Witness ==
    /\ IsRedirect
    /\ txn.request.method = "POST"
    /\ txn.request.target = Some(<<"/", "redirector", "/", "x">>)
    /\ Response.status = 404

\* the elements of an XML body with the given tag
Texts(body, tag) == {body[i].text : i \in {j \in 1..Len(body) : body[j].tag = tag}}

\* C10: for every method, query and set of request headers, a request
\* whose path is exactly /redirector/getServerInstance is answered 200 with
\* hostname localhost, ip 2130706433 and the game port in the body, and
\* the three identification headers and an XML content type.
C10_ServerInstanceResponse ==
    (IsRedirect /\ UriPath(txn.request.target) = GetServerInstancePath) =>
        /\ Response.status = 200
        /\ Texts(Response.body, "hostname") = {"localhost"}
        /\ Texts(Response.body, "ip") = {2130706433}
        /\ Texts(Response.body, "port") = {BLAZE_PORT}
        /\ Present(Response.headers) = BlazeHeaders \cup {CONTENT_TYPE}
        /\ Response.headers[X_BLAZE_COMPONENT] = << <<"redirector">> >>
        /\ Response.headers[X_BLAZE_COMMAND] = << <<"getServerInstance">> >>
        /\ Response.headers[X_BLAZE_SEQNO] = << <<"0">> >>
        /\ Response.headers[CONTENT_TYPE] = << <<"application/xml">> >>

C10_Witness ==
    /\ IsRedirect
    /\ txn.request.method = "POST"
    /\ txn.request.target = Some(GetServerInstancePath \o <<"?", "x">>)
    /\ txn.request.headers[X_BLAZE_SEQNO] # <<>>
    /\ Response.status = 200

(***************************************************************************)
(* Upgrade requests (create_server_stream, create_server_tunnel).          *)
(***************************************************************************)
IsUpgrade == txn.handler \in {"stream", "tunnel"}

\* the upgrade request was sent and the remote server answered it
UpgradeAnswered ==
    IsUpgrade /\ txn.result.kind # "panic" /\ txn.remote.kind = "response"

UpgradeHeaders == txn.result.request.value.headers

\* C11: when the remote server answers the upgrade request with an error
\* status (4xx or 5xx, e.g. 401), the call returns an error, never a duplex
\* stream, and no upgrade is attempted on that response
C11_ErrorStatusIsErrorNoUpgrade ==
    (UpgradeAnswered /\ txn.remote.status \in 400..599)
        => /\ txn.result.kind = "err"
           /\ txn.result.err = "ServerError"
           /\ ~txn.result.upgrade_called

C11_Witness ==
    /\ UpgradeAnswered
    /\ txn.remote.status = 401
    /\ txn.remote.switches
    /\ txn.result.err = "ServerError"

\* C12 as stated: a duplex stream is returned only if the remote response
\* status was in the 2xx class and the upgrade negotiation completed; every
\* other status, or an upgrade that does not complete, is an error
C12_StreamOnlyOn2xx ==
    UpgradeAnswered
        => (txn.result.kind = "stream"
              <=> (txn.remote.status \in 200..299 /\ txn.remote.switches))

\* C12 amended: a duplex stream is returned only if the remote response was
\* 101 Switching Protocols and the upgrade negotiation completed; every
\* other status (2xx, 3xx, 4xx, 5xx), or an upgrade that does not complete,
\* is an error: ServerError for 4xx and 5xx, UpgradeFailure otherwise
C12_StreamOnlyOnSwitchingProtocols ==
    UpgradeAnswered
        => /\ txn.result.kind = "stream"
                <=> (txn.remote.status = 101 /\ txn.remote.switches)
           /\ txn.result.kind \in {"stream", "err"}
           /\ txn.result.kind = "err"
                => txn.result.err =
                       (IF txn.remote.status \in 400..599
                        THEN "ServerError" ELSE "UpgradeFailure")

C12_Witness ==
    /\ UpgradeAnswered
    /\ txn.result.kind = "stream"
    /\ txn.remote.status = 101

\* C13: a sent authenticated upgrade request carries Connection: Upgrade,
\* Upgrade: blaze and x-token equal to the bearer token; a sent tunnel
\* request carries Connection: Upgrade, Upgrade: tunnel and no x-token; in
\* both x-association is present exactly when an association token was
\* supplied, with that value
C13_UpgradeRequestHeaders ==
    (IsUpgrade /\ txn.result.request.some)
        => /\ UpgradeHeaders[CONNECTION] = << <<"Upgrade">> >>
           /\ txn.handler = "stream"
                => /\ UpgradeHeaders[UPGRADE] = << <<"blaze">> >>
                   /\ UpgradeHeaders[X_TOKEN] = <<session.token>>
           /\ txn.handler = "tunnel"
                => /\ UpgradeHeaders[UPGRADE] = << <<"tunnel">> >>
                   /\ UpgradeHeaders[X_TOKEN] = <<>>
           /\ UpgradeHeaders[ASSOCIATION] =
                  (IF txn.request.association.some
                   THEN <<txn.request.association.value>> ELSE <<>>)
           /\ \A n \in HeaderNames \ {CONNECTION, UPGRADE, X_TOKEN, ASSOCIATION} :
                  UpgradeHeaders[n] = <<>>

C13_Witness ==
    /\ txn.handler = "tunnel"
    /\ txn.result.request.some
    /\ txn.request.association.some
    /\ UpgradeHeaders[ASSOCIATION] = << <<"as">> >>

(***************************************************************************)
(* The TLS context (create_ssl_context).                                   *)
(***************************************************************************)
IsSslContext == txn.handler = "ssl"

ConnIds == 1..Len(conns)

\* the task waits for something outside the process: the peer's handshake,
\* the request body, the remote server
Stalled(i) == conns[i].st \in {"handshake", "handling", "calling"}

\* the step that lets the task of connection j go on is possible
CanProceed(j) ==
    /\ conns[j].st = "handshake" => ENABLED HandshakeOk(j)
    /\ conns[j].st = "handling" => ENABLED RespondEarly(j)
    /\ (conns[j].st = "handling" /\ server = "http") => ENABLED BodyRead(j)
    /\ conns[j].st = "calling" => ENABLED RemoteDone(j)
    /\ (conns[j].st = "serving" /\ conns[j].started < MaxReqs)
           => ENABLED StartRequest(j)

\* C15: while a connection is stalled (in its handshake, its body read or
\* its remote call), every other connection can still take its next step
\* up to the completion of its request, and the accept loop can still
\* accept a further connection
C15_StallDoesNotBlockOthers ==
    \A i \in ConnIds :
        Stalled(i) =>
            /\ \A j \in ConnIds \ {i} : CanProceed(j)
            /\ (listener = "accepting" /\ Len(conns) < MaxConns)
                   => ENABLED AcceptSpawn

C15_Witness ==
    /\ Len(conns) = MaxConns
    /\ conns[1].st = "calling"
    /\ conns[1].served = 0
    /\ conns[2].served = 1
    /\ conns[2].st = "serving"

\* a failure met while a proxied request is handled
HandlingFailed ==
    \/ ~JoinOf(txn.request).ok
    \/ ~FirstData(txn.request.frames).ok
    \/ ~IsValidHeaderValue(session.token)
    \/ TransportFailed

\* C16: every proxied request is answered with a response, and when the
\* URL join, the body read, the building of the x-token header from the
\* session token or the outbound transport fails, that response is a 500
\* or a 503; handling never ends without a response
C16_EveryFailureIsAnswered ==
    IsProxy =>
        /\ txn.result.kind = "response"
        /\ HandlingFailed => Response.status \in {500, 503}

\* C17: when binding fails the server returns that error and no connection
\* is ever accepted and no task ever spawned
C17_BindFailureAcceptsNothing ==
    listener = "bind_err" => conns = <<>>

C17_Witness ==
    /\ listener = "bind_err"
    /\ conns = <<>>
    /\ ~ENABLED AcceptSpawn

\* C18: a proxied request causes at most one outbound call, and exactly
\* one (the request is handed to the outbound client once) when the URL
\* join and the body read succeed
C18_OneOutboundCall ==
    IsProxy =>
        /\ Len(txn.result.calls) <= 1
        /\ (JoinOf(txn.request).ok /\ FirstData(txn.request.frames).ok)
               => txn.result.handed.some

\* C19: on one connection the requests are handled one after the other: a
\* request is in the handler (or in its outbound call) only when every
\* earlier request of the connection has been answered, and at most one
\* request is unanswered at any time
C19_RequestsInOrder ==
    \A i \in ConnIds :
        /\ conns[i].started - conns[i].served \in {0, 1}
        /\ conns[i].st \in {"handling", "calling"}
               => conns[i].started = conns[i].served + 1
        /\ conns[i].st \in {"handshake", "serving", "closed"}
               => conns[i].started = conns[i].served

C19_Witness ==
    \E i \in ConnIds :
        /\ conns[i].st = "calling"
        /\ conns[i].started = 2
        /\ conns[i].served = 1

\* C20: a connection is accepted, then its TLS handshake runs in the
\* connection's own task, then requests are handled: a task starts with
\* the handshake pending, no request reaches the handler before the
\* handshake has completed, and a failed handshake ends the task with the
\* handler never called
C20_HandshakeBeforeRequests ==
    \A i \in ConnIds :
        /\ conns[i].hs = "pending" <=> conns[i].st = "handshake"
        /\ conns[i].started > 0 => conns[i].hs = "ok"
        /\ conns[i].hs = "failed"
               => (conns[i].st = "failed" /\ conns[i].started = 0)

C20_Witness ==
    /\ Len(conns) = MaxConns
    /\ conns[1].hs = "failed"
    /\ conns[2].hs = "ok"
    /\ conns[2].served = 1

(***************************************************************************)
(* What the proxy handler copies, and its body read failure.               *)
(***************************************************************************)
\* the headers the handler sets or removes itself
OwnHeaders == {X_TOKEN, TRANSFER_ENCODING, CONTENT_LENGTH}

\* C21: the request handed to the outbound client has every inbound header
\* other than x-token, Transfer-Encoding and Content-Length with its
\* inbound values unchanged, and the inbound method
C21_OtherHeadersAndMethodKept ==
    Handed =>
        /\ \A n \in HeaderNames \ OwnHeaders :
               txn.result.handed.value.headers[n] = txn.request.headers[n]
        /\ txn.result.handed.value.method = txn.request.method

C21_Witness ==
    /\ Forwarded
    /\ txn.request.method = "POST"
    /\ Len(txn.request.headers[X_CUSTOM]) = 2
    /\ txn.result.calls[1].headers[X_CUSTOM] = << <<"v">>, <<"w">> >>
    /\ txn.result.calls[1].method = "POST"

\* C23: when the handler's read of the inbound body fails, the answer is
\* 503 and no outbound call is made for the request
C23_BodyFailureIs503NoCall ==
    (IsProxy /\ ~FirstData(txn.request.frames).ok) =>
        /\ txn.result.kind = "response"
        /\ Response.status = 503
        /\ txn.result.handed = None
        /\ txn.result.calls = <<>>

C23_Witness ==
    /\ IsProxy
    /\ JoinOf(txn.request).ok
    /\ ~FirstData(txn.request.frames).ok
    /\ Response.status = 503
    /\ txn.result.calls = <<>>

(***************************************************************************)
(* The server lookup (lookup_server).                                      *)
(***************************************************************************)
IsLookup == txn.handler = "lookup"

\* the details request was sent, answered without an error status, and
\* its body parsed as server details
DetailsParsed ==
    /\ IsLookup
    /\ txn.result.info_url.some
    /\ txn.remote.kind = "response"
    /\ txn.remote.status \notin 400..599
    /\ txn.remote.details.some

Details == txn.remote.details.value

IdentOk == Details.ident = Some(SERVER_IDENT)
Outdated == VersionLess(Details.version, MIN_SERVER_VERSION)

\* C22: lookup_server succeeds only if the server's ident is present and
\* equal to POCKET_ARK_SERVER and its version is at least
\* MIN_SERVER_VERSION; a missing or different ident gives NotPocketArk
\* (also when the version is too old as well), an older version with a
\* good ident gives ServerOutdated, and these two errors are given only for
\* parsed details, never for a failed connection, an error status or an
\* invalid response
C22_LookupValidation ==
    IsLookup =>
        /\ txn.result.kind = "ok" => (DetailsParsed /\ IdentOk /\ ~Outdated)
        /\ txn.result.err \in {"NotPocketArk", "ServerOutdated"} => DetailsParsed
        /\ DetailsParsed =>
              /\ ~IdentOk => txn.result.err = "NotPocketArk"
              /\ (IdentOk /\ Outdated) => txn.result.err = "ServerOutdated"
              /\ (IdentOk /\ ~Outdated) => txn.result.kind = "ok"
        /\ (txn.result.info_url.some /\ ~DetailsParsed) =>
              txn.result.err \in {"ConnectionFailed", "ErrorResponse", "InvalidResponse"}

C22_Witness ==
    /\ DetailsParsed
    /\ Details.ident = None
    /\ Outdated
    /\ txn.result.err = "NotPocketArk"

\* the base URL of a successful lookup
LookupUrl == txn.result.data.value.url

\* C24: a connection URL with no http:// or https:// prefix gets scheme
\* http, changed to https exactly when the scheme was inferred and the port
\* given is 443; a given scheme is never changed; and the base URL always
\* ends with "/", so the details are requested at the base URL's path
\* followed by api/server
C24_HostNormalisation ==
    (IsLookup /\ txn.result.kind = "ok") =>
        /\ LookupUrl.scheme =
               (IF txn.request.host.prefix = HttpPrefix THEN HTTP
                ELSE IF txn.request.host.prefix = HttpsPrefix THEN HTTPS
                ELSE IF txn.request.host.port = <<":", "443">> THEN HTTPS
                ELSE HTTP)
        /\ EndsWith(LookupUrl.path, "/")
        /\ txn.result.info_url.value =
               MkUrl(LookupUrl.scheme, LookupUrl.host, LookupUrl.port,
                     LookupUrl.path \o DETAILS_ENDPOINT, NoQuery)

====
